---- MODULE Spec2Model ----
(***************************************************************************)
(* Model of src/main.rs: a client that waits for the SSH port of a host    *)
(* to accept TCP connections, opens a multiplexed session, runs `ps auwx`  *)
(* parsing its output, and uploads b"hey" to test.txt over sftp.           *)
(*                                                                         *)
(* Time is counted in whole seconds since main started.  Text is a         *)
(* sequence of one-character strings, so that splitting and the row        *)
(* pattern work on characters as the code does.                            *)
(***************************************************************************)
EXTENDS Integers, Sequences, FiniteSets, TLC

(* ------------------------------ constants ------------------------------ *)

\* Duration::from_secs(10) of interval(), main.rs:53
Period == 10

\* Duration::from_secs(5) of timeout(), main.rs:56
ConnectTimeout == 5

\* assert_eq!(headers.len(), 11), main.rs:91
HeaderLen == 11

\* the {10} of the row pattern, main.rs:95
RowFields == 10

(* -------------------------------- bounds ------------------------------- *)

\* connect attempts the prober is followed for
MaxAttempts == 3

\* the longest time, in seconds, a TCP connect takes to answer
MaxDelay == 6

\* data rows read from the ps output
MaxRows == 2

\* largest number of whitespace-separated tokens of a generated line
MaxTokens == 13

\* largest number of bytes one read of the upload source returns
MaxChunk == 2

(* ------------------------------- text ---------------------------------- *)

\* the characters \s and split_whitespace treat as whitespace
WS == {" ", "\t"}

COMMAND == <<"C", "O", "M", "M", "A", "N", "D">>

IsWs(s, i) == s[i] \in WS

\* length of the run of whitespace (ws = TRUE) or of non-whitespace
\* characters of s that starts at position pos
RECURSIVE RunLen(_, _, _)
RunLen(s, pos, ws) ==
    IF pos > Len(s) \/ (IsWs(s, pos) # ws) THEN 0
    ELSE 1 + RunLen(s, pos + 1, ws)

\* str::split_whitespace().collect::<Vec<_>>(), main.rs:90
RECURSIVE SplitFrom(_, _)
SplitFrom(s, pos) ==
    IF pos > Len(s) THEN << >>
    ELSE IF IsWs(s, pos) THEN SplitFrom(s, pos + 1)
    ELSE LET n == RunLen(s, pos, FALSE)
         IN  <<SubSeq(s, pos, pos + n - 1)>> \o SplitFrom(s, pos + n)

split_whitespace(s) == SplitFrom(s, 1)

\* the tail (.*)$ of the row pattern at pos: `.` takes every character but
\* a line feed and `$` is the end of the text
TailMatches(s, pos) == \A i \in pos..Len(s) : s[i] # "\n"

\* ^(?:[^\s]+\s+){10}(.*)$ searched the way the regex crate reports it:
\* the match a backtracking engine finds first, every repetition greedy.
\* MatchGroups(s, pos, k) is the position at which the capture group starts
\* when k more groups [^\s]+\s+ are matched from pos, or 0 without a match.
RECURSIVE MatchGroups(_, _, _)
RECURSIVE TryNonWs(_, _, _, _)
RECURSIVE TryWs(_, _, _, _)
TryWs(s, pos, k, m) ==
    IF m = 0 THEN 0
    ELSE LET r == MatchGroups(s, pos + m, k - 1)
         IN  IF r # 0 THEN r ELSE TryWs(s, pos, k, m - 1)

TryNonWs(s, pos, k, n) ==
    IF n = 0 THEN 0
    ELSE LET r == TryWs(s, pos + n, k, RunLen(s, pos + n, TRUE))
         IN  IF r # 0 THEN r ELSE TryNonWs(s, pos, k, n - 1)

MatchGroups(s, pos, k) ==
    IF k = 0 THEN (IF TailMatches(s, pos) THEN pos ELSE 0)
    ELSE TryNonWs(s, pos, k, RunLen(s, pos, FALSE))

\* the row pattern with one field too few, {9}
RegexCaptures9(record) ==
    LET p == MatchGroups(record, 1, RowFields - 1)
    IN  IF p = 0 THEN [matched |-> FALSE, command |-> << >>]
        ELSE [matched |-> TRUE, command |-> SubSeq(record, p, Len(record))]

\* regex.captures(&record), main.rs:95-98: group 1 of the match, if any
RegexCaptures(record) ==
    LET p == MatchGroups(record, 1, RowFields)
    IN  IF p = 0 THEN [matched |-> FALSE, command |-> << >>]
        ELSE [matched |-> TRUE, command |-> SubSeq(record, p, Len(record))]

(* ------------------------- generated input lines ------------------------ *)

Alpha == <<"a", "b", "c", "d", "e", "f", "g", "h", "i", "j", "k", "l", "m",
           "n", "o", "p">>

\* the i-th token of a generated line; the second one has two characters
Tok(i) == IF i = 2 THEN <<"p", "s">> ELSE <<Alpha[i]>>

\* n tokens, the last one `last` when it is not empty, separated by one
\* blank, by a blank and a tab after token number wide
RECURSIVE Join(_, _, _, _)
Join(i, n, last, wide) ==
    IF i > n THEN << >>
    ELSE (IF i = n /\ last # << >> THEN last ELSE Tok(i))
         \o (IF i = n THEN << >>
             ELSE IF i = wide THEN <<" ", "\t">> ELSE <<" ">>)
         \o Join(i + 1, n, last, wide)

Line(n, last, wide, lead, trail) ==
    (IF lead THEN <<" ">> ELSE << >>) \o Join(1, n, last, wide)
    \o (IF trail THEN <<"\t">> ELSE << >>)

\* the example row of the specification of parse_row
ExampleRow ==
    <<"u", "s", "e", "r", " ", "1", "2", "3", " ", "0", ".", "0", " ", "0", ".",
    "1", " ", "1", "0", "0", "0", " ", "2", "0", "0", " ", "p", "t", "s", "/",
    "0", " ", "S", " ", "0", "0", ":", "0", "0", " ", "0", ":", "0", "0", " ",
    "/", "b", "i", "n", "/", "b", "a", "s", "h", " ", "-", "c", " ", "f", "o",
    "o">>

ExampleCommand == <<"/", "b", "i", "n", "/", "b", "a", "s", "h", " ", "-", "c", " ", "f", "o", "o">>

(* -------------------------------- state -------------------------------- *)

VARIABLES
    target,     \* what answers at host:port: "up", "down" or "flaky"
    pc,         \* the await main is suspended at
    outcome,    \* "running", "exit0", "exit1" (main returned Err), "panic"
    err,        \* the error main returned or the panic message, "" if none
    trace,      \* the steps of main in the order they started and ended
    now,        \* the prober's clock, seconds since main started
    deadline,   \* the instant of the next tick of the interval
    attempts,   \* the connect attempts made: start, finish, result
    stderr,     \* the diagnostic lines written, with the time of writing
    nticks,     \* completed interval.tick() calls
    psProc,     \* ps_process: "none", "running", "waited", "dropped"
    psExit,     \* exit status wait() reported for ps, -1 before
    lastRead,   \* what the latest next_line() gave: "err", "eof", "line"
    linesRead,  \* the lines taken from the stdout of ps so far
    stdout,     \* what println! wrote, one element per call
    sftpProc,   \* sftp_process: "none", "running", "waited", "dropped"
    source,     \* the bytes of the upload source, the argument data
    data,       \* the bytes of the upload source not read yet
    remoteFile  \* content of test.txt on the remote side, <<"absent">> before

vars == <<target, pc, outcome, err, trace, now, deadline, attempts, stderr,
          nticks, psProc, psExit, lastRead, linesRead, stdout, sftpProc, source,
          data, remoteFile>>

proberVars == <<now, deadline, attempts, stderr, nticks>>
commandVars == <<psProc, psExit, lastRead, linesRead, stdout>>
uploadVars == <<sftpProc, source, data, remoteFile>>

Targets == {"up", "down", "flaky"}

\* &b"hey"[..], main.rs:44
Hey == <<"h", "e", "y">>

Absent == <<"absent">>

Max(a, b) == IF a >= b THEN a ELSE b

\* the state main is entered in
InitRun(tg) ==
    /\ target = tg
    /\ pc = "interval"
    /\ outcome = "running"
    /\ err = ""
    /\ trace = << >>
    /\ now = 0
    /\ deadline = -1
    /\ attempts = << >>
    /\ stderr = << >>
    /\ nticks = 0
    /\ psProc = "none"
    /\ psExit = -1
    /\ lastRead = "none"
    /\ linesRead = << >>
    /\ stdout = << >>
    /\ sftpProc = "none"
    /\ source = Hey
    /\ data = Hey
    /\ remoteFile = Absent

Init == \E tg \in Targets : InitRun(tg)

\* main returns Err(e) through `?` while in step: the process exits 1
ReturnErr(step, e) ==
    /\ pc' = "done"
    /\ outcome' = "exit1"
    /\ err' = e
    /\ trace' = Append(trace, <<step, "err">>)

\* an assert or expect fails in step: the process panics
Panic(step, e) ==
    /\ pc' = "done"
    /\ outcome' = "panic"
    /\ err' = e
    /\ trace' = Append(trace, <<step, "panic">>)

(* ------------------------ wait_for_ssh_connectable ---------------------- *)

\* a prober that waits one period before its first attempt
IntervalNewTickFirst ==
    /\ pc = "interval"
    /\ deadline' = now + Period
    /\ pc' = "tick"
    /\ trace' = Append(trace, <<"prober", "start">>)
    /\ UNCHANGED <<target, outcome, err, now, attempts, stderr, nticks>>
    /\ UNCHANGED <<commandVars, uploadVars>>

\* main.rs:30 and 53: main calls the prober, which creates the interval;
\* the first tick of a tokio interval is due at once
IntervalNew ==
    /\ pc = "interval"
    /\ deadline' = now
    /\ pc' = "connect"
    /\ trace' = Append(trace, <<"prober", "start">>)
    /\ UNCHANGED <<target, outcome, err, now, attempts, stderr, nticks>>
    /\ UNCHANGED <<commandVars, uploadVars>>

\* the answers a connect to the target can get
Answers(tg) ==
    CASE tg = "up" -> {"ok"}
      [] tg = "down" -> {"refused"}
      [] OTHER -> {"ok", "refused"}

\* the times a connect to the target can take to answer; one that is up
\* answers within the timeout
Delays(tg) == IF tg = "up" THEN 0..ConnectTimeout ELSE 0..MaxDelay

\* a prober whose connect is awaited without the timeout
ConnectAttemptNoTimeout(res, d) ==
    LET finish == now + d
    IN  /\ pc = "connect"
        /\ Len(attempts) < MaxAttempts
        /\ attempts' = Append(attempts, [start |-> now, finish |-> finish,
                                         result |-> res])
        /\ now' = finish
        /\ IF res = "ok"
           THEN /\ pc' = "session"
                /\ trace' = Append(trace, <<"prober", "ok">>)
                /\ UNCHANGED stderr
           ELSE /\ pc' = "tick"
                /\ stderr' = Append(stderr, [at |-> finish, msg |-> res])
                /\ UNCHANGED trace
        /\ UNCHANGED <<target, outcome, err, deadline, nticks>>
        /\ UNCHANGED <<commandVars, uploadVars>>

\* a prober that gives up, returning Err, at its second failed attempt
ConnectAttemptLimited(res, d) ==
    LET completes == d <= ConnectTimeout
        result == IF completes THEN res ELSE "timeout"
        finish == now + (IF completes THEN d ELSE ConnectTimeout)
    IN  /\ pc = "connect"
        /\ Len(attempts) < MaxAttempts
        /\ attempts' = Append(attempts, [start |-> now, finish |-> finish,
                                         result |-> result])
        /\ now' = finish
        /\ IF result = "ok"
           THEN /\ pc' = "session"
                /\ trace' = Append(trace, <<"prober", "ok">>)
                /\ UNCHANGED <<stderr, outcome, err>>
           ELSE IF Len(attempts) >= 1
           THEN /\ ReturnErr("prober", result)
                /\ stderr' = Append(stderr, [at |-> finish, msg |-> result])
           ELSE /\ pc' = "tick"
                /\ stderr' = Append(stderr, [at |-> finish, msg |-> result])
                /\ UNCHANGED <<trace, outcome, err>>
        /\ UNCHANGED <<target, deadline, nticks>>
        /\ UNCHANGED <<commandVars, uploadVars>>

\* main.rs:56-67: one timeout(5 s, TcpStream::connect) whose connect would
\* answer res after d seconds, and the match on its result
ConnectAttempt(res, d) ==
    LET completes == d <= ConnectTimeout
        result == IF completes THEN res ELSE "timeout"
        finish == now + (IF completes THEN d ELSE ConnectTimeout)
    IN  /\ pc = "connect"
        /\ Len(attempts) < MaxAttempts
        /\ attempts' = Append(attempts, [start |-> now, finish |-> finish,
                                         result |-> result])
        /\ now' = finish
        /\ IF result = "ok"
           THEN /\ pc' = "session"
                /\ trace' = Append(trace, <<"prober", "ok">>)
                /\ UNCHANGED stderr
           ELSE /\ pc' = "tick"
                /\ stderr' = Append(stderr, [at |-> finish, msg |-> result])
                /\ UNCHANGED trace
        /\ UNCHANGED <<target, outcome, err, deadline, nticks>>
        /\ UNCHANGED <<commandVars, uploadVars>>

\* a timer that counts its period from the tick that completed, as a
\* sleep of one period between ticks would
IntervalTickDelay ==
    /\ pc = "tick"
    /\ now' = Max(now, deadline)
    /\ deadline' = Max(now, deadline) + Period
    /\ nticks' = nticks + 1
    /\ pc' = "connect"
    /\ UNCHANGED <<target, outcome, err, trace, attempts, stderr>>
    /\ UNCHANGED <<commandVars, uploadVars>>

\* main.rs:59 and 63: interval.tick().await; it completes at the deadline,
\* at once when the deadline has passed, and the next tick is due one
\* period after this deadline
IntervalTick ==
    /\ pc = "tick"
    /\ now' = Max(now, deadline)
    /\ deadline' = deadline + Period
    /\ nticks' = nticks + 1
    /\ pc' = "connect"
    /\ UNCHANGED <<target, outcome, err, trace, attempts, stderr>>
    /\ UNCHANGED <<commandVars, uploadVars>>

(* --------------------------------- main -------------------------------- *)

\* main.rs:32-40: SessionBuilder ... connect_mux(host).await?
SessionConnect(ok) ==
    /\ pc = "session"
    /\ IF ok
       THEN /\ pc' = "spawn_ps"
            /\ trace' = trace \o << <<"session", "start">>, <<"session", "ok">> >>
            /\ UNCHANGED <<outcome, err>>
       ELSE /\ pc' = "done"
            /\ outcome' = "exit1"
            /\ err' = "session"
            /\ trace' = trace \o << <<"session", "start">>, <<"session", "err">> >>
    /\ UNCHANGED <<target, proberVars, commandVars, uploadVars>>

(* ----------------------------- command_list ---------------------------- *)

\* a command_list that is started but not awaited before the upload
CommandSpawnDetached(ok) ==
    /\ pc = "spawn_ps"
    /\ IF ok
       THEN /\ psProc' = "running"
            /\ pc' = "spawn_sftp"
            /\ trace' = Append(trace, <<"command", "start">>)
            /\ UNCHANGED <<outcome, err>>
       ELSE /\ pc' = "done"
            /\ outcome' = "exit1"
            /\ err' = "spawn"
            /\ trace' = trace \o << <<"command", "start">>, <<"command", "err">> >>
            /\ UNCHANGED psProc
    /\ UNCHANGED <<target, proberVars, psExit, lastRead, linesRead, stdout>>
    /\ UNCHANGED uploadVars

\* main.rs:42 and 76-84: main calls command_list, which spawns ps with its
\* stdout piped
CommandSpawn(ok) ==
    /\ pc = "spawn_ps"
    /\ IF ok
       THEN /\ psProc' = "running"
            /\ pc' = "first_line"
            /\ trace' = Append(trace, <<"command", "start">>)
            /\ UNCHANGED <<outcome, err>>
       ELSE /\ pc' = "done"
            /\ outcome' = "exit1"
            /\ err' = "spawn"
            /\ trace' = trace \o << <<"command", "start">>, <<"command", "err">> >>
            /\ UNCHANGED psProc
    /\ UNCHANGED <<target, proberVars, psExit, lastRead, linesRead, stdout>>
    /\ UNCHANGED uploadVars

\* what line_stream.next_line().await gives: a read error, the end of the
\* stream, or a line
ReadResults(lines) ==
    {[kind |-> "err", line |-> << >>], [kind |-> "eof", line |-> << >>]}
    \cup {[kind |-> "line", line |-> l] : l \in lines}

\* the same for a row, no further line once max rows have been read
RowResults(lines, max) ==
    ReadResults(IF Len(linesRead) <= max THEN lines ELSE {})

\* a header check that looks at the last token only
ReadFirstLineLastOnly(r) ==
    /\ pc = "first_line"
    /\ lastRead' = r.kind
    /\ IF r.kind = "err"
       THEN /\ ReturnErr("command", "read")
            /\ psProc' = "dropped"
            /\ UNCHANGED <<linesRead, stdout>>
       ELSE IF r.kind = "eof"
       THEN /\ ReturnErr("command", "output no line")
            /\ psProc' = "dropped"
            /\ UNCHANGED <<linesRead, stdout>>
       ELSE LET headers == split_whitespace(r.line)
            IN  /\ linesRead' = Append(linesRead, r.line)
                /\ IF headers = << >> \/ headers[Len(headers)] # COMMAND
                   THEN /\ Panic("command", "assert last")
                        /\ psProc' = "dropped"
                        /\ UNCHANGED stdout
                   ELSE /\ stdout' = Append(stdout, headers)
                        /\ pc' = "rows"
                        /\ UNCHANGED <<outcome, err, trace, psProc>>
    /\ UNCHANGED <<target, proberVars, psExit, uploadVars>>

\* a first read that unwraps the line: the end of the stream is a panic
ReadFirstLineExpect(r) ==
    /\ pc = "first_line"
    /\ lastRead' = r.kind
    /\ IF r.kind = "err"
       THEN /\ ReturnErr("command", "read")
            /\ psProc' = "dropped"
            /\ UNCHANGED <<linesRead, stdout>>
       ELSE IF r.kind = "eof"
       THEN /\ Panic("command", "output no line")
            /\ psProc' = "dropped"
            /\ UNCHANGED <<linesRead, stdout>>
       ELSE LET headers == split_whitespace(r.line)
            IN  /\ linesRead' = Append(linesRead, r.line)
                /\ IF Len(headers) # HeaderLen
                   THEN /\ Panic("command", "assert len")
                        /\ psProc' = "dropped"
                        /\ UNCHANGED stdout
                   ELSE IF headers[Len(headers)] # COMMAND
                   THEN /\ Panic("command", "assert last")
                        /\ psProc' = "dropped"
                        /\ UNCHANGED stdout
                   ELSE /\ stdout' = Append(stdout, headers)
                        /\ pc' = "rows"
                        /\ UNCHANGED <<outcome, err, trace, psProc>>
    /\ UNCHANGED <<target, proberVars, psExit, uploadVars>>

\* main.rs:86-93: the first line is read, split and checked.  Leaving the
\* function here, by Err or by panic, drops ps_process without a wait.
ReadFirstLine(r) ==
    /\ pc = "first_line"
    /\ lastRead' = r.kind
    /\ IF r.kind = "err"
       THEN /\ ReturnErr("command", "read")
            /\ psProc' = "dropped"
            /\ UNCHANGED <<linesRead, stdout>>
       ELSE IF r.kind = "eof"
       THEN /\ ReturnErr("command", "output no line")
            /\ psProc' = "dropped"
            /\ UNCHANGED <<linesRead, stdout>>
       ELSE LET headers == split_whitespace(r.line)
            IN  /\ linesRead' = Append(linesRead, r.line)
                /\ IF Len(headers) # HeaderLen
                   THEN /\ Panic("command", "assert len")
                        /\ psProc' = "dropped"
                        /\ UNCHANGED stdout
                   ELSE IF headers[Len(headers)] # COMMAND
                   THEN /\ Panic("command", "assert last")
                        /\ psProc' = "dropped"
                        /\ UNCHANGED stdout
                   ELSE /\ stdout' = Append(stdout, headers)
                        /\ pc' = "rows"
                        /\ UNCHANGED <<outcome, err, trace, psProc>>
    /\ UNCHANGED <<target, proberVars, psExit, uploadVars>>

\* a loop left after its first row: the wait comes with rows still unread
ReadRowWaitEarly(r) ==
    /\ pc = "rows"
    /\ lastRead' = r.kind
    /\ IF r.kind = "err"
       THEN /\ ReturnErr("command", "read")
            /\ psProc' = "dropped"
            /\ UNCHANGED <<linesRead, stdout>>
       ELSE IF r.kind = "eof"
       THEN /\ pc' = "wait_ps"
            /\ UNCHANGED <<outcome, err, trace, psProc, linesRead, stdout>>
       ELSE LET captures == RegexCaptures(r.line)
            IN  /\ linesRead' = Append(linesRead, r.line)
                /\ IF ~captures.matched
                   THEN /\ Panic("command", "regex should match")
                        /\ psProc' = "dropped"
                        /\ UNCHANGED stdout
                   ELSE /\ stdout' = Append(stdout, captures.command)
                        /\ pc' = "wait_ps"
                        /\ UNCHANGED <<outcome, err, trace, psProc>>
    /\ UNCHANGED <<target, proberVars, psExit, uploadVars>>

\* a loop that prints the row before it looks at the match
ReadRowPrintFirst(r) ==
    /\ pc = "rows"
    /\ lastRead' = r.kind
    /\ IF r.kind = "err"
       THEN /\ ReturnErr("command", "read")
            /\ psProc' = "dropped"
            /\ UNCHANGED <<linesRead, stdout>>
       ELSE IF r.kind = "eof"
       THEN /\ pc' = "wait_ps"
            /\ UNCHANGED <<outcome, err, trace, psProc, linesRead, stdout>>
       ELSE LET captures == RegexCaptures(r.line)
            IN  /\ linesRead' = Append(linesRead, r.line)
                /\ IF ~captures.matched
                   THEN /\ Panic("command", "regex should match")
                        /\ psProc' = "dropped"
                        /\ stdout' = Append(stdout, r.line)
                   ELSE /\ stdout' = Append(stdout, captures.command)
                        /\ UNCHANGED <<pc, outcome, err, trace, psProc>>
    /\ UNCHANGED <<target, proberVars, psExit, uploadVars>>

\* a loop that skips a row the pattern does not match
ReadRowSkip(r) ==
    /\ pc = "rows"
    /\ lastRead' = r.kind
    /\ IF r.kind = "err"
       THEN /\ ReturnErr("command", "read")
            /\ psProc' = "dropped"
            /\ UNCHANGED <<linesRead, stdout>>
       ELSE IF r.kind = "eof"
       THEN /\ pc' = "wait_ps"
            /\ UNCHANGED <<outcome, err, trace, psProc, linesRead, stdout>>
       ELSE LET captures == RegexCaptures(r.line)
            IN  /\ linesRead' = Append(linesRead, r.line)
                /\ stdout' = IF captures.matched
                             THEN Append(stdout, captures.command)
                             ELSE stdout
                /\ UNCHANGED <<pc, outcome, err, trace, psProc>>
    /\ UNCHANGED <<target, proberVars, psExit, uploadVars>>

\* main.rs:96-100: one turn of the while let loop
ReadRow(r) ==
    /\ pc = "rows"
    /\ lastRead' = r.kind
    /\ IF r.kind = "err"
       THEN /\ ReturnErr("command", "read")
            /\ psProc' = "dropped"
            /\ UNCHANGED <<linesRead, stdout>>
       ELSE IF r.kind = "eof"
       THEN /\ pc' = "wait_ps"
            /\ UNCHANGED <<outcome, err, trace, psProc, linesRead, stdout>>
       ELSE LET captures == RegexCaptures(r.line)
            IN  /\ linesRead' = Append(linesRead, r.line)
                /\ IF ~captures.matched
                   THEN /\ Panic("command", "regex should match")
                        /\ psProc' = "dropped"
                        /\ UNCHANGED stdout
                   ELSE /\ stdout' = Append(stdout, captures.command)
                        /\ UNCHANGED <<pc, outcome, err, trace, psProc>>
    /\ UNCHANGED <<target, proberVars, psExit, uploadVars>>

\* a wait that turns a non-zero exit status into an error
PsWaitCheckStatus(ok, status) ==
    /\ pc = "wait_ps"
    /\ IF ok /\ status = 0
       THEN /\ psProc' = "waited"
            /\ psExit' = status
            /\ pc' = "spawn_sftp"
            /\ trace' = Append(trace, <<"command", "ok">>)
            /\ UNCHANGED <<outcome, err>>
       ELSE /\ ReturnErr("command", "wait")
            /\ psProc' = "waited"
            /\ psExit' = IF ok THEN status ELSE psExit
    /\ UNCHANGED <<target, proberVars, lastRead, linesRead, stdout, uploadVars>>

\* a wait whose error is dropped instead of returned
PsWaitIgnoreErr(ok, status) ==
    /\ pc = "wait_ps"
    /\ psProc' = "waited"
    /\ pc' = "spawn_sftp"
    /\ IF ok
       THEN /\ psExit' = status
            /\ trace' = Append(trace, <<"command", "ok">>)
       ELSE /\ UNCHANGED psExit
            /\ trace' = Append(trace, <<"command", "err">>)
    /\ UNCHANGED <<outcome, err>>
    /\ UNCHANGED <<target, proberVars, lastRead, linesRead, stdout, uploadVars>>

\* main.rs:102-104: ps_process.wait().await?; the status is not looked at
PsWait(ok, status) ==
    /\ pc = "wait_ps"
    /\ IF ok
       THEN /\ psProc' = "waited"
            /\ psExit' = status
            /\ pc' = "spawn_sftp"
            /\ trace' = Append(trace, <<"command", "ok">>)
            /\ UNCHANGED <<outcome, err>>
       ELSE /\ ReturnErr("command", "wait")
            /\ psProc' = "waited"
            /\ UNCHANGED psExit
    /\ UNCHANGED <<target, proberVars, lastRead, linesRead, stdout, uploadVars>>

(* ----------------------------- put_data_file --------------------------- *)

\* main.rs:44 and 112-117: main calls put_data_file, which spawns the sftp
\* subsystem
SftpSpawn(ok) ==
    /\ pc = "spawn_sftp"
    /\ IF ok
       THEN /\ sftpProc' = "running"
            /\ pc' = "sftp_new"
            /\ trace' = Append(trace, <<"upload", "start">>)
            /\ UNCHANGED <<outcome, err>>
       ELSE /\ pc' = "done"
            /\ outcome' = "exit1"
            /\ err' = "spawn"
            /\ trace' = trace \o << <<"upload", "start">>, <<"upload", "err">> >>
            /\ UNCHANGED sftpProc
    /\ UNCHANGED <<target, proberVars, commandVars, source, data, remoteFile>>

\* main.rs:119-123: Sftp::new(stdin, stdout, ...).await?
SftpNew(ok) ==
    /\ pc = "sftp_new"
    /\ IF ok
       THEN /\ pc' = "create"
            /\ UNCHANGED <<outcome, err, trace, sftpProc>>
       ELSE /\ ReturnErr("upload", "sftp")
            /\ sftpProc' = "dropped"
    /\ UNCHANGED <<target, proberVars, commandVars, source, data, remoteFile>>

\* main.rs:125-126: sftp.create(remote_path).await? creates or truncates
SftpCreate(ok) ==
    /\ pc = "create"
    /\ IF ok
       THEN /\ remoteFile' = << >>
            /\ pc' = "copy"
            /\ UNCHANGED <<outcome, err, trace, sftpProc>>
       ELSE /\ ReturnErr("upload", "create")
            /\ sftpProc' = "dropped"
            /\ UNCHANGED remoteFile
    /\ UNCHANGED <<target, proberVars, commandVars, source, data>>

\* a copy that writes what its first read returned and stops there
CopyOnce(ok, k) ==
    /\ pc = "copy"
    /\ IF ~ok
       THEN /\ ReturnErr("upload", "copy")
            /\ sftpProc' = "dropped"
            /\ UNCHANGED <<data, remoteFile>>
       ELSE /\ k <= Len(data) \/ data = << >>
            /\ remoteFile' = IF data = << >> THEN remoteFile
                              ELSE remoteFile \o SubSeq(data, 1, k)
            /\ data' = IF data = << >> THEN data
                        ELSE SubSeq(data, k + 1, Len(data))
            /\ pc' = "done"
            /\ outcome' = "exit0"
            /\ UNCHANGED err
            /\ trace' = Append(trace, <<"upload", "ok">>)
            /\ sftpProc' = "dropped"
    /\ UNCHANGED <<target, proberVars, commandVars, source>>

\* main.rs:128-130 and 46: one read of copy() that returns k bytes and the
\* write of them; at the end of the source copy returns, put_data_file
\* returns Ok, dropping sftp_process, and main returns Ok(())
Copy(ok, k) ==
    /\ pc = "copy"
    /\ IF ~ok
       THEN /\ ReturnErr("upload", "copy")
            /\ sftpProc' = "dropped"
            /\ UNCHANGED <<data, remoteFile>>
       ELSE IF data = << >>
       THEN /\ pc' = "done"
            /\ outcome' = "exit0"
            /\ UNCHANGED err
            /\ trace' = Append(trace, <<"upload", "ok">>)
            /\ sftpProc' = "dropped"
            /\ UNCHANGED <<data, remoteFile>>
       ELSE /\ k <= Len(data)
            /\ remoteFile' = remoteFile \o SubSeq(data, 1, k)
            /\ data' = SubSeq(data, k + 1, Len(data))
            /\ UNCHANGED <<pc, outcome, err, trace, sftpProc>>
    /\ UNCHANGED <<target, proberVars, commandVars, source>>

(* ----------------------------- specifications -------------------------- *)

Lines(ns, lasts, wides) ==
    {Line(n, last, wide, lead, trail) :
        n \in ns, last \in lasts, wide \in wides,
        lead \in BOOLEAN, trail \in BOOLEAN}

\* first lines and rows the whole run is followed on
RunHeaders == {Line(HeaderLen, COMMAND, 0, FALSE, FALSE),
               Line(HeaderLen + 1, COMMAND, 0, FALSE, FALSE),
               << >>}
RunRows == {ExampleRow, Line(RowFields, << >>, 0, FALSE, FALSE)}

Prober ==
    \/ IntervalNew
    \/ \E res \in Answers(target), d \in Delays(target) : ConnectAttempt(res, d)
    \/ IntervalTick

Upload ==
    \/ \E ok \in BOOLEAN : SftpSpawn(ok)
    \/ \E ok \in BOOLEAN : SftpNew(ok)
    \/ \E ok \in BOOLEAN : SftpCreate(ok)
    \/ \E ok \in BOOLEAN, k \in 1..MaxChunk : Copy(ok, k)

Next ==
    \/ Prober
    \/ \E ok \in BOOLEAN : SessionConnect(ok)
    \/ \E ok \in BOOLEAN : CommandSpawn(ok)
    \/ \E r \in ReadResults(RunHeaders) : ReadFirstLine(r)
    \/ \E r \in RowResults(RunRows, MaxRows) : ReadRow(r)
    \/ \E ok \in BOOLEAN, status \in {0, 1} : PsWait(ok, status)
    \/ Upload

Spec == Init /\ [][Next]_vars

\* the state of main once the prober has returned from a first attempt that
\* connected at once and the session is open
InitParse ==
    /\ target = "up"
    /\ pc = "spawn_ps"
    /\ outcome = "running"
    /\ err = ""
    /\ trace = << <<"prober", "start">>, <<"prober", "ok">>,
                  <<"session", "start">>, <<"session", "ok">> >>
    /\ now = 0
    /\ deadline = 0
    /\ attempts = << [start |-> 0, finish |-> 0, result |-> "ok"] >>
    /\ stderr = << >>
    /\ nticks = 0
    /\ psProc = "none"
    /\ psExit = -1
    /\ lastRead = "none"
    /\ linesRead = << >>
    /\ stdout = << >>
    /\ sftpProc = "none"
    /\ source = Hey
    /\ data = Hey
    /\ remoteFile = Absent

\* rows read per run when the parser is followed on many lines
MaxParseRows == 1

\* first lines and rows the parser is followed on
ParseHeaders ==
    Lines((HeaderLen - 1)..(HeaderLen + 1), {<< >>, COMMAND}, {0, 3})
    \cup {<< >>}
ParseRows ==
    Lines((RowFields - 1)..MaxTokens, {<< >>}, {0, RowFields, RowFields + 2})
    \cup {ExampleRow, << >>}

NextParse ==
    \/ \E ok \in BOOLEAN : CommandSpawn(ok)
    \/ \E r \in ReadResults(ParseHeaders) : ReadFirstLine(r)
    \/ \E r \in RowResults(ParseRows, MaxParseRows) : ReadRow(r)
    \/ \E ok \in BOOLEAN, status \in {0, 1} : PsWait(ok, status)

\* command_list on many first lines and rows, from an open session
SpecParse == InitParse /\ [][NextParse]_vars

\* longest upload source put_data_file is followed on
MaxData == 3

\* the byte sources of at most n bytes
RECURSIVE Sources(_)
Sources(n) ==
    IF n = 0 THEN {<< >>}
    ELSE Sources(n - 1)
         \cup {Append(q, b) : q \in {x \in Sources(n - 1) : Len(x) = n - 1},
                              b \in {"h", "e", "y"}}

\* the state in which main calls put_data_file, command_list having read a
\* header and no row, with src as the data to upload
InitUpload(src) ==
    /\ target = "up"
    /\ pc = "spawn_sftp"
    /\ outcome = "running"
    /\ err = ""
    /\ trace = << <<"prober", "start">>, <<"prober", "ok">>,
                  <<"session", "start">>, <<"session", "ok">>,
                  <<"command", "start">>, <<"command", "ok">> >>
    /\ now = 0
    /\ deadline = 0
    /\ attempts = << [start |-> 0, finish |-> 0, result |-> "ok"] >>
    /\ stderr = << >>
    /\ nticks = 0
    /\ psProc = "waited"
    /\ psExit = 0
    /\ lastRead = "eof"
    /\ linesRead = << Line(HeaderLen, COMMAND, 0, FALSE, FALSE) >>
    /\ stdout = << split_whitespace(Line(HeaderLen, COMMAND, 0, FALSE, FALSE)) >>
    /\ sftpProc = "none"
    /\ source = src
    /\ data = src
    /\ remoteFile = Absent

\* put_data_file on every byte source of at most MaxData bytes
SpecUpload == (\E src \in Sources(MaxData) : InitUpload(src)) /\ [][Upload]_vars

(* -------------------------------- claims ------------------------------- *)

ProberPcs == {"interval", "connect", "tick"}

Failed == {i \in 1..Len(attempts) : attempts[i].result # "ok"}

Last(q) == q[Len(q)]

Events(step) == {i \in 1..Len(trace) : trace[i][1] = step}

\* positions at which a whitespace-separated token of s starts
TokenStarts(s) ==
    {i \in 1..Len(s) : s[i] \notin WS /\ (i = 1 \/ s[i - 1] \in WS)}

\* the last position of the token of s that starts at i
TokenEnd(s, i) ==
    CHOOSE j \in i..Len(s) :
        /\ \A k \in i..j : s[k] \notin WS
        /\ j = Len(s) \/ s[j + 1] \in WS

\* the k-th whitespace-separated token of s
NthToken(s, k) ==
    LET i == CHOOSE x \in TokenStarts(s) :
                 Cardinality({y \in TokenStarts(s) : y < x}) = k - 1
    IN  SubSeq(s, i, TokenEnd(s, i))

\* where the text after the first 10 fields of s and the whitespace that
\* follows the tenth begins, for an s that begins with a field
RemainderStarts(s) ==
    {p \in 2..(Len(s) + 1) :
        /\ s[1] \notin WS
        /\ s[p - 1] \in WS
        /\ p > Len(s) \/ s[p] \notin WS
        /\ Cardinality({i \in TokenStarts(s) : i < p}) = RowFields}

\* C1: the prober never returns a failure: main is past the prober only
\* after an attempt that connected, and while every attempt so far has
\* failed or timed out, however many, the prober is still running; on a
\* target that is down it never returns.
C1_ProberNeverFails ==
    /\ \A i \in Events("prober") : trace[i][2] \in {"start", "ok"}
    /\ pc \notin ProberPcs =>
          /\ attempts # << >>
          /\ Last(attempts).result = "ok"
          /\ <<"prober", "ok">> \in {trace[i] : i \in 1..Len(trace)}
    /\ Failed = 1..Len(attempts) => pc \in ProberPcs /\ outcome = "running"
    /\ target = "down" => pc \in ProberPcs /\ outcome = "running"
    /\ pc = "tick" => ENABLED IntervalTick

C1_Witness ==
    /\ target = "down"
    /\ Len(attempts) = MaxAttempts
    /\ pc = "connect"
    /\ Len(stderr) = MaxAttempts

\* C2 (as claimed): on a target that is down there is one diagnostic line
\* per failed attempt and any two consecutive lines, the first and the
\* second included, are at least 10 seconds apart.
C2_DiagnosticSpacing ==
    target = "down" =>
        /\ Len(stderr) = Cardinality(Failed)
        /\ \A i \in 1..(Len(stderr) - 1) :
              stderr[i + 1].at - stderr[i].at >= Period

\* C3: the first attempt starts at once, before any tick; a successful
\* attempt returns without a tick; a target that is up is left at the first
\* attempt with nothing written to stderr.
C3_FirstAttemptImmediate ==
    /\ attempts # << >> => attempts[1].start = 0
    /\ Len(attempts) = 0 => nticks = 0
    /\ pc \notin ProberPcs =>
          /\ nticks = Len(attempts) - 1
          /\ now = Last(attempts).finish
    /\ target = "up" /\ attempts # << >> =>
          /\ Len(attempts) = 1
          /\ stderr = << >>
          /\ nticks = 0
          /\ pc \notin ProberPcs

C3_Witness ==
    /\ target = "up"
    /\ pc = "spawn_ps"
    /\ Len(attempts) = 1
    /\ attempts[1].finish > 0

StepOrder == <<"prober", "session", "command", "upload">>

\* C4: the steps run in the order prober, session, command, upload: a step
\* starts right after the one before it ended in success, nothing follows
\* the start of a step but its own end, the session is not tried before the
\* prober connected, and ps and sftp are never running together.
C4_StrictOrder ==
    /\ \A i \in 1..Len(trace) :
          /\ trace[i][2] = "start" =>
                \E j \in 1..4 :
                    /\ trace[i][1] = StepOrder[j]
                    /\ IF j = 1 THEN i = 1
                       ELSE trace[i - 1] = <<StepOrder[j - 1], "ok">>
          /\ trace[i][2] # "start" =>
                i > 1 /\ trace[i - 1] = <<trace[i][1], "start">>
    /\ Events("session") # {} =>
          attempts # << >> /\ Last(attempts).result = "ok"
    /\ ~(psProc = "running" /\ sftpProc = "running")
    /\ psProc = "running" => pc \in {"first_line", "rows", "wait_ps"}
    /\ sftpProc # "none" \/ pc \in {"spawn_sftp", "sftp_new", "create", "copy"}
          => psProc = "waited"

C4_Witness ==
    /\ outcome = "exit0"
    /\ Len(trace) = 8
    /\ Len(linesRead) > 1

\* C5: past the prober the first error or panic is the last thing that
\* happens: the run is over with a non-zero outcome and no later step was
\* started; after a failed command flow there was no upload; the outcome is
\* exit 0 only with both the command flow and the upload ended in success.
C5_FailFast ==
    /\ \A i \in 1..Len(trace) :
          trace[i][2] \in {"err", "panic"} =>
              /\ i = Len(trace)
              /\ pc = "done"
              /\ outcome = (IF trace[i][2] = "err" THEN "exit1" ELSE "panic")
              /\ err # ""
    /\ (\E i \in Events("command") : trace[i][2] \in {"err", "panic"}) =>
          /\ Events("upload") = {}
          /\ sftpProc = "none"
          /\ remoteFile = Absent
    /\ outcome = "exit0" <=>
          /\ pc = "done"
          /\ {<<"command", "ok">>, <<"upload", "ok">>}
                \subseteq {trace[i] : i \in 1..Len(trace)}
    /\ pc = "done" <=> outcome # "running"

C5_Witness ==
    /\ outcome = "exit1"
    /\ err = "wait"
    /\ Last(trace) = <<"command", "err">>
    /\ stdout # << >>

\* C6 (as claimed): no process handle is discarded without having been
\* waited on or closed, whatever way command_list and put_data_file end.
C6_HandlesReaped ==
    /\ psProc # "dropped"
    /\ sftpProc # "dropped"

\* C7: the first line is accepted, and its tokens printed unchanged and in
\* order, exactly when it has 11 whitespace-separated tokens of which the
\* 11th is COMMAND; any other first line is a panic with nothing printed
\* and no row read.
C7_HeaderValidation ==
    linesRead # << >> =>
        LET h == linesRead[1]
        IN  IF /\ Cardinality(TokenStarts(h)) = HeaderLen
               /\ NthToken(h, HeaderLen) = COMMAND
            THEN /\ stdout # << >>
                 /\ stdout[1] = [k \in 1..HeaderLen |-> NthToken(h, k)]
                 /\ err \notin {"assert len", "assert last"}
            ELSE /\ stdout = << >>
                 /\ Len(linesRead) = 1
                 /\ outcome = "panic"
                 /\ pc = "done"

C7_Witness ==
    /\ pc = "rows"
    /\ Len(linesRead) = 1
    /\ linesRead[1][1] = " "
    /\ Last(linesRead[1]) = "\t"
    /\ Len(stdout[1][2]) = 2

\* C8: when the stream of ps ends before a first line, command_list returns
\* the error "output no line", it does not panic, and the run ends with
\* exit 1 and nothing printed.
C8_NoOutputIsError ==
    lastRead = "eof" /\ linesRead = << >> =>
        /\ outcome = "exit1"
        /\ err = "output no line"
        /\ pc = "done"
        /\ Last(trace) = <<"command", "err">>
        /\ stdout = << >>

C8_Witness ==
    /\ lastRead = "eof"
    /\ linesRead = << >>
    /\ psProc = "dropped"

\* C9: what is printed for a row is the row from the first character after
\* its first 10 fields and the whitespace behind the tenth, to its end, with
\* the whitespace inside kept; the example row gives /bin/bash -c foo.
C9_RowRemainder ==
    \A k \in 2..Len(stdout) :
        LET row == linesRead[k]
        IN  /\ Cardinality(RemainderStarts(row)) = 1
            /\ \A p \in RemainderStarts(row) :
                  stdout[k] = SubSeq(row, p, Len(row))
            /\ row = ExampleRow => stdout[k] = ExampleCommand

C9_Witness ==
    /\ Len(stdout) = 2
    /\ Cardinality(TokenStarts(linesRead[2])) = MaxTokens
    /\ \E i \in 1..(Len(stdout[2]) - 1) : stdout[2][i] = "\t"

\* C10: a row with fewer than 10 fields is not matched, and a row that is
\* not matched is a panic: it is the last line read, nothing is printed for
\* it and no further row is read.
C10_ShortRowPanics ==
    \A k \in 2..Len(linesRead) :
        LET row == linesRead[k]
        IN  /\ Cardinality(TokenStarts(row)) < RowFields =>
                  ~RegexCaptures(row).matched
            /\ ~RegexCaptures(row).matched =>
                  /\ k = Len(linesRead)
                  /\ Len(stdout) = k - 1
                  /\ outcome = "panic"
                  /\ err = "regex should match"
                  /\ pc = "done"

C10_Witness ==
    /\ Len(linesRead) = 2
    /\ Cardinality(TokenStarts(linesRead[2])) = RowFields - 1
    /\ outcome = "panic"

\* C11: once put_data_file has returned Ok the source has been read to its
\* end and the remote file holds the bytes of the source, all of them, in
\* order and nothing else; before that it holds the bytes read so far; for
\* the source hey it holds the 3 bytes h, e, y.
C11_UploadRoundTrip ==
    /\ remoteFile # Absent => remoteFile \o data = source
    /\ <<"upload", "ok">> \in {trace[i] : i \in 1..Len(trace)} =>
          /\ data = << >>
          /\ remoteFile = source
          /\ Len(remoteFile) = Len(source)
          /\ source = Hey => remoteFile = <<"h", "e", "y">>

C11_Witness ==
    /\ outcome = "exit0"
    /\ source = Hey
    /\ remoteFile = <<"h", "e", "y">>

InTrace(e) == e \in {trace[i] : i \in 1..Len(trace)}

\* C12: ps is waited on only once its output has been read to the end of
\* the stream, every line read having been printed; it is waited on at most
\* once, and command_list returns Ok in the very step in which that one
\* wait succeeds.
C12_WaitAfterEof ==
    /\ [](pc = "wait_ps" \/ psProc = "waited" =>
             /\ lastRead = "eof"
             /\ linesRead # << >>
             /\ Len(stdout) = Len(linesRead))
    /\ [][psProc = "waited" => psProc' = "waited" /\ pc' # "wait_ps"]_vars
    /\ [][~InTrace(<<"command", "ok">>) /\ InTrace(<<"command", "ok">>)' =>
             pc = "wait_ps" /\ psProc = "running" /\ psProc' = "waited"]_vars

C12_Witness ==
    /\ pc = "spawn_sftp"
    /\ psProc = "waited"
    /\ Len(linesRead) = 1 + MaxRows
    /\ Len(stdout) = 1 + MaxRows

\* C13: the exit status of ps is not looked at: after a wait that succeeded
\* with a non-zero status command_list has returned Ok, the upload is the
\* step that runs next, and nothing but the upload can still fail the run.
C13_ExitStatusIgnored ==
    psExit > 0 =>
        /\ psProc = "waited"
        /\ InTrace(<<"command", "ok">>)
        /\ ~InTrace(<<"command", "err">>)
        /\ pc = "spawn_sftp" => ENABLED SftpSpawn(TRUE)
        /\ pc # "spawn_sftp" => InTrace(<<"upload", "start">>)
        /\ outcome \in {"exit1", "panic"} => Last(trace) = <<"upload", "err">>

C13_Witness ==
    /\ psExit = 1
    /\ outcome = "exit0"
    /\ remoteFile = Hey

\* C14: no attempt lasts longer than 5 seconds; one that times out ends 5
\* seconds after its start, counts as failed, writes the line "timeout" at
\* that moment, and a tick of the timer is awaited before the next attempt.
C14_AttemptTimeout ==
    \A i \in 1..Len(attempts) :
        LET a == attempts[i]
        IN  /\ a.finish - a.start \in 0..ConnectTimeout
            /\ a.result = "timeout" =>
                  /\ a.finish = a.start + ConnectTimeout
                  /\ i \in Failed
                  /\ Len(stderr) >= i
                  /\ stderr[i] = [at |-> a.finish, msg |-> "timeout"]
                  /\ IF i = Len(attempts)
                     THEN pc \in {"tick", "connect"} /\ nticks >= i - 1
                     ELSE nticks >= i
                  /\ pc = "connect" => nticks >= i

C14_Witness ==
    /\ Len(attempts) = 2
    /\ attempts[1].result = "timeout"
    /\ attempts[2].start = ConnectTimeout
    /\ pc = "session"

\* C16: the timer is created before the first attempt and its ticks are due
\* at whole periods after its creation, whenever the attempts failed: the
\* k-th tick awaited completes no later than (k-1) periods after creation,
\* attempts from the third on start exactly on a tick, and between a failed
\* attempt and the start of the next one lie at least 0 and at most 10
\* seconds.
C16_TimerAnchored ==
    /\ pc = "interval" <=> deadline = -1
    /\ pc # "interval" => deadline = nticks * Period
    /\ attempts # << >> => deadline >= 0
    /\ \A i \in 1..Len(attempts) :
          /\ i >= 3 => attempts[i].start = (i - 2) * Period
          /\ i > 1 =>
                attempts[i].start - attempts[i - 1].finish \in 0..Period
    /\ pc = "tick" => Max(now, deadline) - now \in 0..Period

C16_Witness ==
    /\ Len(attempts) = 3
    /\ attempts[1].finish = 3
    /\ attempts[2].finish = 3 + ConnectTimeout
    /\ attempts[3].start = Period

IsPrefix(q, r) == Len(q) <= Len(r) /\ q = SubSeq(r, 1, Len(q))

\* C15: what has been printed is, in order, the header and then the command
\* text of the rows read, of all of them or of all but the last one; it
\* lacks the last line read only after the panic on that line, which is then
\* the first line that did not pass; a line is read only when every earlier
\* one has been printed, and what was printed stays printed.
C15_OutputIsPrefix ==
    /\ [](/\ Len(stdout) <= Len(linesRead)
          /\ Len(linesRead) <= Len(stdout) + 1
          /\ stdout # << >> => stdout[1] = split_whitespace(linesRead[1])
          /\ \A k \in 2..Len(stdout) :
                /\ RegexCaptures(linesRead[k]).matched
                /\ stdout[k] = RegexCaptures(linesRead[k]).command
          /\ Len(stdout) < Len(linesRead) =>
                /\ outcome = "panic"
                /\ pc = "done"
                /\ Len(linesRead) > 1 => ~RegexCaptures(Last(linesRead)).matched)
    /\ [][/\ IsPrefix(stdout, stdout')
          /\ Len(stdout') <= Len(stdout) + 1
          /\ linesRead' # linesRead =>
                /\ Len(stdout) = Len(linesRead)
                /\ linesRead' = Append(linesRead, Last(linesRead'))
          /\ lastRead' = "err" /\ pc = "rows" =>
                stdout' = stdout /\ Len(stdout) = Len(linesRead)]_vars

C15_Witness ==
    /\ outcome = "panic"
    /\ Len(linesRead) = 3
    /\ Len(stdout) = 2
    /\ stdout[2] = ExampleCommand

====
